---- MODULE Spec2Model ----
(***************************************************************************)
(* Streaming HTTP message reconstruction of script/burp_to_xml.py:         *)
(* find_next_http_start, parse_headers, parse_chunked_end,                 *)
(* extract_http_message, iter_http_messages and the request/response       *)
(* pairing loop of write_http_messages_as_xml.                             *)
(*                                                                         *)
(* A byte string is a sequence of one-character strings.  Offsets are the  *)
(* code's 0-based offsets: the byte at offset i of buf is buf[i + 1].      *)
(* An Optional value is <<>> (None) or <<v>>.                              *)
(***************************************************************************)
EXTENDS Integers, Sequences, FiniteSets, TLC

VARIABLES
    input,            \* the bytes of the file at input_path
    parts,            \* ghost: the message descriptors input was built from
    chunk_size,       \* iter_http_messages' chunk_size
    limit,            \* write_http_messages_as_xml's limit, <<>> or <<n>>
    pos,              \* file position of f
    buffer,           \* iter_http_messages' buffer
    base,             \* ghost: offset in input of buffer's first byte
    idx,              \* parse_chunked_end's idx while the walker runs
    cur,              \* the tuple just yielded, <<>> or <<m>>
    yielded,          \* ghost: every tuple yielded so far, with its offsets in input
    pending_request,  \* <<>> or <<m>>
    items,            \* the (request, response) pairs given to write_http_item
    count_items,
    pc                \* "read", "extract", "chunk", "pair", "flush", "done"

vars == <<input, parts, chunk_size, limit, pos, buffer, base, idx, cur,
          yielded, pending_request, items, count_items, pc>>

----------------------------------------------------------------------------
(* Bytes and Python's sequence primitives *)

CR == "\r"
LF == "\n"
SP == " "
TAB == "\t"
FF == "\f"

None == <<>>
Some(v) == <<v>>

Max(a, b) == IF a >= b THEN a ELSE b
Min(a, b) == IF a <= b THEN a ELSE b
MinOf(S) == CHOOSE x \in S : \A y \in S : x <= y

\* Python's clamping of a slice bound i on a sequence of length n.
PyIdx(n, i) == IF i < 0 THEN Max(n + i, 0) ELSE Min(i, n)

\* buf[lo:hi]
Slice(buf, lo, hi) == SubSeq(buf, PyIdx(Len(buf), lo) + 1, PyIdx(Len(buf), hi))

\* buf[lo:]
SliceFrom(buf, lo) == SubSeq(buf, PyIdx(Len(buf), lo) + 1, Len(buf))

\* buf[i] for 0 <= i < len(buf)
At(buf, i) == buf[i + 1]

\* buf[i:i+len(sub)] == sub, for i >= 0
MatchAt(buf, i, sub) ==
    /\ i + Len(sub) <= Len(buf)
    /\ \A t \in 1..Len(sub) : buf[i + t] = sub[t]

\* buf.find(sub, start): the lowest offset >= start where sub occurs, else -1
Find(buf, sub, start) ==
    LET s == PyIdx(Len(buf), start)
        hits == {i \in s..(Len(buf) - Len(sub)) : MatchAt(buf, i, sub)}
    IN  IF hits = {} THEN -1 ELSE MinOf(hits)

\* sub in buf
Contains(buf, sub) == Find(buf, sub, 0) # -1

UPPER == <<"A","B","C","D","E","F","G","H","I","J","K","L","M",
           "N","O","P","Q","R","S","T","U","V","W","X","Y","Z">>
LOWER == <<"a","b","c","d","e","f","g","h","i","j","k","l","m",
           "n","o","p","q","r","s","t","u","v","w","x","y","z">>

LowerOf == [c \in {UPPER[i] : i \in 1..26} |->
                LOWER[CHOOSE i \in 1..26 : UPPER[i] = c]]
UpperOf == [c \in {LOWER[i] : i \in 1..26} |->
                UPPER[CHOOSE i \in 1..26 : LOWER[i] = c]]

ToLower(c) == IF c \in DOMAIN LowerOf THEN LowerOf[c] ELSE c
ToUpper(c) == IF c \in DOMAIN UpperOf THEN UpperOf[c] ELSE c

\* s.lower(), s.upper()
Lower(s) == [i \in 1..Len(s) |-> ToLower(s[i])]
Upper(s) == [i \in 1..Len(s) |-> ToUpper(s[i])]

\* s.startswith(p)
StartsWith(s, p) == MatchAt(s, 0, p)

\* The ASCII whitespace of bytes.strip(), str.strip() and the pattern \s that
\* a TLA+ string can spell (the vertical tab is left out).
WHITESPACE == {SP, TAB, LF, CR, FF}

\* s.strip()
RECURSIVE LStrip(_)
LStrip(s) == IF s # <<>> /\ Head(s) \in WHITESPACE THEN LStrip(Tail(s)) ELSE s
RECURSIVE RStrip(_)
RStrip(s) == IF s # <<>> /\ s[Len(s)] \in WHITESPACE
             THEN RStrip(SubSeq(s, 1, Len(s) - 1)) ELSE s
Strip(s) == RStrip(LStrip(s))

\* bytes.splitlines(): lines end at \r\n, \r or \n; no line after the last end
RECURSIVE SplitLinesFrom(_, _)
SplitLinesFrom(buf, i) ==
    IF i >= Len(buf) THEN <<>>
    ELSE LET brk == {j \in i..(Len(buf) - 1) : At(buf, j) \in {CR, LF}}
             eol == IF brk = {} THEN Len(buf) ELSE MinOf(brk)
             nxt == IF eol >= Len(buf) THEN eol
                    ELSE IF At(buf, eol) = CR /\ eol + 1 < Len(buf)
                            /\ At(buf, eol + 1) = LF
                         THEN eol + 2 ELSE eol + 1
         IN  <<Slice(buf, i, eol)>> \o SplitLinesFrom(buf, nxt)
SplitLines(buf) == SplitLinesFrom(buf, 0)

\* s.split(b":", 1) for s containing sep
SplitOnce(s, sep) ==
    LET k == Find(s, <<sep>>, 0)
    IN  <<Slice(s, 0, k), SliceFrom(s, k + 1)>>

DIGITS == <<"0","1","2","3","4","5","6","7","8","9">>
HEXDIGITS == <<"0","1","2","3","4","5","6","7","8","9",
               "a","b","c","d","e","f">>

IsDigit(c) == \E i \in 1..10 : DIGITS[i] = c
DigitValue(c, radix) ==
    IF \E i \in 1..radix : HEXDIGITS[i] = ToLower(c)
    THEN (CHOOSE i \in 1..radix : HEXDIGITS[i] = ToLower(c)) - 1
    ELSE -1

\* The digit part of an int() literal: digits of the radix, single
\* underscores allowed between digits (and after a 0x prefix).
DigitsOk(s, radix, lead) ==
    /\ s # <<>>
    /\ \A i \in 1..Len(s) : s[i] = "_" \/ DigitValue(s[i], radix) >= 0
    /\ s[Len(s)] # "_"
    /\ (s[1] = "_" => lead)
    /\ \A i \in 1..(Len(s) - 1) : ~(s[i] = "_" /\ s[i + 1] = "_")

RECURSIVE DigitsValue(_, _, _)
DigitsValue(s, radix, acc) ==
    IF s = <<>> THEN acc
    ELSE IF Head(s) = "_" THEN DigitsValue(Tail(s), radix, acc)
    ELSE DigitsValue(Tail(s), radix, acc * radix + DigitValue(Head(s), radix))

\* int(s, radix) for radix 10 or 16: None stands for ValueError
ParseInt(s, radix) ==
    LET t == Strip(s)
        neg == t # <<>> /\ t[1] = "-"
        u == IF t # <<>> /\ t[1] \in {"+", "-"} THEN Tail(t) ELSE t
        pre == radix = 16 /\ Len(u) >= 2 /\ u[1] = "0" /\ ToLower(u[2]) = "x"
        d == IF pre THEN SubSeq(u, 3, Len(u)) ELSE u
    IN  IF DigitsOk(d, radix, pre)
        THEN Some(IF neg THEN 0 - DigitsValue(d, radix, 0)
                  ELSE DigitsValue(d, radix, 0))
        ELSE None

----------------------------------------------------------------------------
(* Message start patterns *)

HTTP_METHODS == <<
    <<"G","E","T">>,
    <<"P","O","S","T">>,
    <<"P","U","T">>,
    <<"D","E","L","E","T","E">>,
    <<"H","E","A","D">>,
    <<"O","P","T","I","O","N","S">>,
    <<"P","A","T","C","H">>,
    <<"C","O","N","N","E","C","T">>,
    <<"T","R","A","C","E">> >>

\* The longest target [^\r\n]{1,2048} of REQUEST_START_RE
MAX_TARGET == 2048

B_HTTP == <<"H","T","T","P","/">>

\* buf[i:i+len(sub)] equals the upper-case sub ignoring case (re.IGNORECASE)
MatchAtCI(buf, i, sub) ==
    /\ i + Len(sub) <= Len(buf)
    /\ \A t \in 1..Len(sub) : ToUpper(buf[i + t]) = sub[t]

DigitAt(buf, i) == i < Len(buf) /\ IsDigit(At(buf, i))

\* The number of \s bytes in a row from offset r on, and up to offset k
RECURSIVE WsRun(_, _)
WsRun(buf, r) ==
    IF r < Len(buf) /\ At(buf, r) \in WHITESPACE THEN 1 + WsRun(buf, r + 1) ELSE 0
RECURSIVE WsRunBack(_, _)
WsRunBack(buf, k) ==
    IF k > 0 /\ At(buf, k - 1) \in WHITESPACE THEN 1 + WsRunBack(buf, k - 1) ELSE 0

\* HTTP/\d at offset k
VersionAt(buf, k) == MatchAtCI(buf, k, B_HTTP) /\ DigitAt(buf, k + 5)

\* \s+[^\r\n]{1,2048}\s+HTTP/\d matches from offset r: the target is
\* buf[i:j], the version token is at k
RequestTail(buf, r) ==
    \E i \in (r + 1)..(r + WsRun(buf, r)) :
        \E k \in (i + 2)..(Len(buf) - 6) :
            /\ VersionAt(buf, k)
            /\ \E j \in Max(i + 1, k - WsRunBack(buf, k))..(k - 1) :
                   /\ j - i <= MAX_TARGET
                   /\ \A t \in i..(j - 1) : At(buf, t) \notin {CR, LF}

\* (?:^|[\r\n]) matches at offset p and the pattern goes on at offset q
AnchorAt(buf, p, q) ==
    \/ q = p /\ p = 0
    \/ q = p + 1 /\ p < Len(buf) /\ At(buf, p) \in {CR, LF}

\* REQUEST_START_RE has a match that starts at offset p
RequestMatchAt(buf, p) ==
    \E q \in {p, p + 1} :
        /\ AnchorAt(buf, p, q)
        /\ \E m \in 1..Len(HTTP_METHODS) :
               /\ MatchAtCI(buf, q, HTTP_METHODS[m])
               /\ RequestTail(buf, q + Len(HTTP_METHODS[m]))

\* \s+\d{3} matches from offset r
StatusTail(buf, r) ==
    \E i \in (r + 1)..(r + WsRun(buf, r)) :
        DigitAt(buf, i) /\ DigitAt(buf, i + 1) /\ DigitAt(buf, i + 2)

\* RESPONSE_START_RE has a match that starts at offset p
ResponseMatchAt(buf, p) ==
    \E q \in {p, p + 1} :
        /\ AnchorAt(buf, p, q)
        /\ VersionAt(buf, q)
        /\ \/ StatusTail(buf, q + 6)
           \/ /\ q + 6 < Len(buf) /\ At(buf, q + 6) = "."
              /\ DigitAt(buf, q + 7)
              /\ StatusTail(buf, q + 8)

\* REQUEST_START_RE.search(buffer).start(), RESPONSE_START_RE.search(buffer).start()
RequestSearch(buf) ==
    LET hits == {p \in 0..(Len(buf) - 1) : RequestMatchAt(buf, p)}
    IN  IF hits = {} THEN None ELSE Some(MinOf(hits))
ResponseSearch(buf) ==
    LET hits == {p \in 0..(Len(buf) - 1) : ResponseMatchAt(buf, p)}
    IN  IF hits = {} THEN None ELSE Some(MinOf(hits))

RECURSIVE SkipLineBreaks(_, _)
SkipLineBreaks(buf, start) ==
    IF start < Len(buf) /\ At(buf, start) \in {LF, CR}
    THEN SkipLineBreaks(buf, start + 1) ELSE start

\* find_next_http_start that takes the later of the two matches
find_next_http_start_Latest(buf) ==
    LET req_match == RequestSearch(buf)
        resp_match == ResponseSearch(buf)
        matches == (IF req_match # None THEN <<<<req_match[1], "request">>>> ELSE <<>>)
                   \o (IF resp_match # None THEN <<<<resp_match[1], "response">>>> ELSE <<>>)
        last == IF Len(matches) = 2 /\ matches[2][1] > matches[1][1]
                THEN matches[2] ELSE matches[1]
    IN  IF matches = <<>> THEN None
        ELSE Some(<<SkipLineBreaks(buf, last[1]), last[2]>>)

\* None, or <<start, kind>> in Some
find_next_http_start(buf) ==
    LET req_match == RequestSearch(buf)
        resp_match == ResponseSearch(buf)
        matches == (IF req_match # None THEN <<<<req_match[1], "request">>>> ELSE <<>>)
                   \o (IF resp_match # None THEN <<<<resp_match[1], "response">>>> ELSE <<>>)
        first == IF Len(matches) = 2 /\ matches[2][1] < matches[1][1]
                 THEN matches[2] ELSE matches[1]
    IN  IF matches = <<>> THEN None
        ELSE Some(<<SkipLineBreaks(buf, first[1]), first[2]>>)

----------------------------------------------------------------------------
(* Header parsing *)

EmptyHeaders == [n \in {} |-> <<>>]

\* HeaderLines that keeps the first value of a repeated name
RECURSIVE HeaderLines_FirstWins(_, _)
HeaderLines_FirstWins(lines, headers) ==
    IF lines = <<>> THEN headers
    ELSE LET line == Head(lines)
         IN  IF Strip(line) = <<>> \/ ~Contains(line, <<":">>)
             THEN HeaderLines_FirstWins(Tail(lines), headers)
             ELSE LET nv == SplitOnce(line, ":")
                      name == Lower(Strip(nv[1]))
                  IN  HeaderLines_FirstWins(Tail(lines), headers @@ (name :> Strip(nv[2])))

RECURSIVE HeaderLines(_, _)
HeaderLines(lines, headers) ==
    IF lines = <<>> THEN headers
    ELSE LET line == Head(lines)
         IN  IF Strip(line) = <<>> \/ ~Contains(line, <<":">>)
             THEN HeaderLines(Tail(lines), headers)
             ELSE LET nv == SplitOnce(line, ":")
                      name == Lower(Strip(nv[1]))
                  IN  HeaderLines(Tail(lines), (name :> Strip(nv[2])) @@ headers)

\* <<first_line, headers>>
parse_headers(header_bytes) ==
    LET lines == SplitLines(header_bytes)
    IN  IF lines = <<>> THEN <<<<>>, EmptyHeaders>>
        ELSE <<Strip(lines[1]), HeaderLines(Tail(lines), EmptyHeaders)>>

----------------------------------------------------------------------------
(* Framing *)

CRLFCRLF == <<CR, LF, CR, LF>>
LFLF == <<LF, LF>>
CONTENT_LENGTH == <<"c","o","n","t","e","n","t","-","l","e","n","g","t","h">>
TRANSFER_ENCODING == <<"t","r","a","n","s","f","e","r","-","e","n","c","o","d","i","n","g">>
CHUNKED == <<"c","h","u","n","k","e","d">>

\* <<header_end, header_sep>> of extract_http_message
HeaderEnd(buf, start) ==
    IF Find(buf, CRLFCRLF, start) # -1
    THEN <<Find(buf, CRLFCRLF, start), 4>>
    ELSE <<Find(buf, LFLF, start), 2>>

\* int(headers["content-length"]), 0 on ValueError
ContentLength(headers) ==
    LET n == ParseInt(headers[CONTENT_LENGTH], 10)
    IN  IF n = None THEN 0 ELSE n[1]

UsesContentLength(headers) == CONTENT_LENGTH \in DOMAIN headers

UsesChunked(headers) ==
    /\ TRANSFER_ENCODING \in DOMAIN headers
    /\ Contains(Lower(headers[TRANSFER_ENCODING]), CHUNKED)

\* extract_http_message up to the choice of framing.  op is "none" (return
\* None), "chunked" (parse_chunked_end is called at body_start) or "message"
\* (the message ends at body_end).
NoFrame == [op |-> "none", start |-> 0, body_start |-> 0, body_end |-> 0,
            first_line |-> <<>>, headers |-> EmptyHeaders]

NewFrame(op, start, body_start, body_end, ph) ==
    [op |-> op, start |-> start, body_start |-> body_start, body_end |-> body_end,
     first_line |-> ph[1], headers |-> ph[2]]

\* FrameBody without the wait for the whole Content-Length body
FrameBody_NoLengthCheck(buf, start, body_start, ph) ==
    IF UsesContentLength(ph[2])
    THEN NewFrame("message", start, body_start, body_start + ContentLength(ph[2]), ph)
    ELSE IF UsesChunked(ph[2]) THEN NewFrame("chunked", start, body_start, body_start, ph)
    ELSE NewFrame("message", start, body_start, body_start, ph)

\* FrameBody with Transfer-Encoding looked at before Content-Length
FrameBody_ChunkedFirst(buf, start, body_start, ph) ==
    IF UsesChunked(ph[2]) THEN NewFrame("chunked", start, body_start, body_start, ph)
    ELSE IF UsesContentLength(ph[2])
    THEN IF Len(buf) < body_start + ContentLength(ph[2]) THEN NoFrame
         ELSE NewFrame("message", start, body_start,
                       body_start + ContentLength(ph[2]), ph)
    ELSE NewFrame("message", start, body_start, body_start, ph)

\* The choice of framing from the parsed headers ph = <<first_line, headers>>
FrameBody(buf, start, body_start, ph) ==
    IF UsesContentLength(ph[2])
    THEN IF Len(buf) < body_start + ContentLength(ph[2]) THEN NoFrame
         ELSE NewFrame("message", start, body_start,
                       body_start + ContentLength(ph[2]), ph)
    ELSE IF UsesChunked(ph[2]) THEN NewFrame("chunked", start, body_start, body_start, ph)
    ELSE NewFrame("message", start, body_start, body_start, ph)

\* From the header terminator he = <<header_end, header_sep>>
FrameHeader(buf, start, he) ==
    IF he[1] = -1 THEN NoFrame
    ELSE FrameBody(buf, start, he[1] + he[2], parse_headers(Slice(buf, start, he[1])))

FrameFound(buf, found) ==
    IF found = None THEN NoFrame
    ELSE FrameHeader(buf, found[1][1], HeaderEnd(buf, found[1][1]))

Frame(buf) == FrameFound(buf, find_next_http_start(buf))

\* One pass of parse_chunked_end's loop from offset i: op is "return" with
\* val the function's result (None or <<end>>), or "loop" with val the idx
\* the next pass starts from.
ChunkStep(buf, i) ==
    LET crlf == Find(buf, <<CR, LF>>, i)
        line_end == IF crlf # -1 THEN crlf ELSE Find(buf, <<LF>>, i)
        line_break == IF crlf # -1 THEN 2 ELSE 1
        line == Slice(buf, i, line_end)
        size_line == Strip(IF Contains(line, <<";">>) THEN SplitOnce(line, ";")[1]
                           ELSE line)
        size == ParseInt(size_line, 16)
        data == line_end + line_break
        after == data + size[1]
        next == IF Slice(buf, after, after + 2) = <<CR, LF>> THEN after + 2
                ELSE IF Slice(buf, after, after + 1) = <<LF>> THEN after + 1
                ELSE -1
        return(v) == [op |-> "return", val |-> v]
    IN  IF line_end = -1 THEN return(None)
        ELSE IF size = None THEN return(None)
        ELSE IF Len(buf) < data + size[1] + line_break THEN return(None)
        ELSE IF ~(Slice(buf, after, after + 2) = <<CR, LF>>
                  \/ Slice(buf, after, after + 1) = <<LF>>) THEN return(None)
        ELSE IF size[1] = 0 THEN return(Some(next))
        ELSE [op |-> "loop", val |-> next]

\* is_request of write_http_messages_as_xml
IsRequest(first_line) ==
    /\ first_line # <<>>
    /\ \E m \in 1..Len(HTTP_METHODS) : StartsWith(Upper(first_line), HTTP_METHODS[m])

----------------------------------------------------------------------------
(* Inputs *)

\* The most tuples one run of the model yields
MaxYield == 4
\* The largest item limit of the model
MaxLimit == 2

REQUEST_LINE == <<"G","E","T"," ","/","a"," ","H","T","T","P","/","1",".","1">>
STATUS_LINE == <<"H","T","T","P","/","1",".","1"," ","2","0","0"," ","O","K">>
CL_NAME == <<"C","o","n","t","e","n","t","-","L","e","n","g","t","h",":"," ">>
TE_LINE == <<"T","r","a","n","s","f","e","r","-","E","n","c","o","d","i","n","g",":"," ","c","h","u","n","k","e","d">>

Eol(e) == IF e = "crlf" THEN <<CR, LF>> ELSE <<LF>>

\* A chunk: size token, extension, line break, data, line break
Chunk(size, ext, e1, data, e2) ==
    [size |-> size, ext |-> ext, e1 |-> e1, data |-> data, e2 |-> e2]
ChunkText(c) == c.size \o c.ext \o Eol(c.e1) \o c.data \o Eol(c.e2)

RECURSIVE ChunksText(_)
ChunksText(cs) == IF cs = <<>> THEN <<>> ELSE ChunkText(Head(cs)) \o ChunksText(Tail(cs))

\* A message: first line, line break of the header block, Content-Length
\* value (None: no such header), Transfer-Encoding: chunked or not, the
\* chunks of its body and the raw bytes after them; hs is further header
\* lines, each a name and a value as written
Msg(line, eol, cl, te, chunks, body) ==
    [line |-> line, eol |-> eol, cl |-> cl, te |-> te, chunks |-> chunks, body |-> body,
     hs |-> <<>>]

Header(name, value) == [name |-> name, value |-> value]
WithHeaders(d, hs) == [d EXCEPT !.hs = hs]

\* A header line as written: no colon when the name is empty
HeaderLine(h) == IF h.name = <<>> THEN h.value ELSE h.name \o <<":">> \o h.value

RECURSIVE HeadersText(_, _)
HeadersText(hs, e) ==
    IF hs = <<>> THEN <<>> ELSE HeaderLine(Head(hs)) \o Eol(e) \o HeadersText(Tail(hs), e)

HeaderText(d) ==
    d.line \o Eol(d.eol)
    \o (IF d.cl # None THEN CL_NAME \o d.cl[1] \o Eol(d.eol) ELSE <<>>)
    \o (IF d.te THEN TE_LINE \o Eol(d.eol) ELSE <<>>)
    \o HeadersText(d.hs, d.eol)
    \o Eol(d.eol)

Text(d) == HeaderText(d) \o ChunksText(d.chunks) \o d.body

RECURSIVE TextOf(_)
TextOf(ds) == IF ds = <<>> THEN <<>> ELSE Text(Head(ds)) \o TextOf(Tail(ds))

AB == <<"a", "b">>
Chunks(e1, e2) == <<Chunk(<<"2">>, <<>>, e1, AB, e1), Chunk(<<"0">>, <<>>, e2, <<>>, e2)>>
ChunksExt == <<Chunk(<<"2">>, <<";", "x">>, "crlf", AB, "crlf"),
               Chunk(<<"0">>, <<>>, "crlf", <<>>, "crlf")>>
ChunksCut == <<Chunk(<<"5">>, <<>>, "crlf", AB, "crlf")>>

Catalogue == {
    Msg(REQUEST_LINE, "crlf", None, FALSE, <<>>, <<>>),
    Msg(REQUEST_LINE, "lf", None, FALSE, <<>>, <<>>),
    Msg(STATUS_LINE, "crlf", Some(<<"2">>), FALSE, <<>>, AB),
    Msg(STATUS_LINE, "lf", Some(<<"2">>), FALSE, <<>>, AB),
    Msg(STATUS_LINE, "crlf", None, TRUE, Chunks("crlf", "crlf"), <<>>),
    Msg(STATUS_LINE, "lf", None, TRUE, Chunks("lf", "lf"), <<>>),
    Msg(STATUS_LINE, "crlf", None, TRUE, Chunks("lf", "crlf"), <<>>),
    Msg(STATUS_LINE, "crlf", None, TRUE, ChunksExt, <<>>),
    Msg(STATUS_LINE, "crlf", None, TRUE, ChunksCut, <<>>),
    Msg(REQUEST_LINE, "crlf", Some(<<"9">>), FALSE, <<>>, AB),
    Msg(REQUEST_LINE, "crlf", Some(<<"-", "1">>), FALSE, <<>>, AB),
    Msg(REQUEST_LINE, "crlf", Some(<<"-", "9", "9">>), FALSE, <<>>, <<>>),
    Msg(STATUS_LINE, "crlf", Some(<<"x">>), TRUE, Chunks("crlf", "crlf"), <<>>),
    Msg(STATUS_LINE, "crlf", Some(<<"3">>), TRUE, Chunks("crlf", "crlf"), <<>>) }

\* Messages read alone only: headers in other letter cases, repeated and
\* padded; chunk-size tokens that are signed, not hexadecimal or empty; a
\* request line that is complete only once the next message has arrived
HOST_UPPER == Header(<<"H","O","S","T">>, <<" ","E","X","A","M","P","L","E",".","C","O","M">>)
CL_NINE == Header(<<"C","o","n","t","e","n","t","-","L","e","n","g","t","h">>, <<" ","9">>)
CL_UPPER_TWO == Header(<<" ","C","O","N","T","E","N","T","-","L","E","N","G","T","H"," ">>, <<"2"," ">>)
HOST_MIXED == Header(<<"H","o","s","t">>, <<" ","a">>)
NO_COLON == Header(<<>>, <<"x","y">>)

ChunksSized(size) == <<Chunk(size, <<>>, "crlf", AB, "crlf"),
                       Chunk(<<"0">>, <<>>, "crlf", <<>>, "crlf")>>

Extras == {
    WithHeaders(Msg(STATUS_LINE, "crlf", None, FALSE, <<>>, <<>>), <<HOST_MIXED, NO_COLON, HOST_UPPER>>),
    WithHeaders(Msg(STATUS_LINE, "crlf", None, FALSE, <<>>, AB), <<CL_NINE, CL_UPPER_TWO>>),
    Msg(STATUS_LINE, "crlf", None, TRUE, ChunksSized(<<"+", "2">>), <<>>),
    Msg(STATUS_LINE, "crlf", None, TRUE, ChunksSized(<<"z", "z">>), <<>>),
    Msg(STATUS_LINE, "crlf", None, TRUE, ChunksSized(<<>>), <<>>),
    Msg(STATUS_LINE, "lf", None, TRUE, <<>>, <<"-", "4", LF>>),
    Msg(STATUS_LINE, "lf", None, TRUE, <<>>, <<"-", "5", LF>>),
    WithHeaders(Msg(<<"G","E","T"," ">>, "lf", None, FALSE, <<>>, STATUS_LINE \o <<LF, LF>>),
                <<Header(<<>>, STATUS_LINE)>>) }

\* A request whose Content-Length says more bytes than any input here
\* holds; its body ends with a line break, so that a message right after it
\* matches a start pattern
OVER == Msg(REQUEST_LINE, "crlf", Some(<<"9", "9">>), FALSE, <<>>, AB \o <<LF>>)

PLAIN_REQUEST == Msg(REQUEST_LINE, "crlf", None, FALSE, <<>>, <<>>)
SIZED_RESPONSE == Msg(STATUS_LINE, "crlf", Some(<<"2">>), FALSE, <<>>, AB)

Singles == {<<d>> : d \in Catalogue \cup Extras}

Several ==
    (Catalogue \X Catalogue)
    \cup {<<OVER, PLAIN_REQUEST>>, <<OVER, SIZED_RESPONSE>>}
    \cup {<<PLAIN_REQUEST, PLAIN_REQUEST, SIZED_RESPONSE>>,
          <<PLAIN_REQUEST, SIZED_RESPONSE, PLAIN_REQUEST>>,
          <<SIZED_RESPONSE, PLAIN_REQUEST, PLAIN_REQUEST>>}

Limits == {None} \cup {Some(n) : n \in 0..MaxLimit}

----------------------------------------------------------------------------
(* iter_http_messages and write_http_messages_as_xml *)

\* One message read with every chunk size up to its length; two or three
\* messages read in one piece (as the default chunk size reads a small
\* file) or in two halves, under every limit
Init ==
    /\ \E ds \in Singles \cup Several :
           /\ parts = ds
           /\ input = TextOf(ds)
           /\ IF Len(ds) = 1
              THEN chunk_size \in 1..Len(TextOf(ds)) /\ limit = None
              ELSE /\ chunk_size \in {Len(TextOf(ds)), (Len(TextOf(ds)) + 1) \div 2}
                   /\ limit \in Limits
    /\ pos = 0
    /\ buffer = <<>>
    /\ base = 0
    /\ idx = 0
    /\ cur = None
    /\ yielded = <<>>
    /\ pending_request = None
    /\ items = <<>>
    /\ count_items = 0
    /\ pc = "read"

\* chunk = f.read(chunk_size); the generator ends when chunk is empty
Read ==
    /\ pc = "read"
    /\ LET chunk == Slice(input, pos, pos + chunk_size)
       IN  IF chunk = <<>>
           THEN /\ pc' = "flush"
                /\ UNCHANGED <<pos, buffer>>
           ELSE /\ buffer' = buffer \o chunk
                /\ pos' = pos + Len(chunk)
                /\ pc' = "extract"
    /\ UNCHANGED <<input, parts, chunk_size, limit, base, idx, cur, yielded,
                   pending_request, items, count_items>>

\* NeedMoreData that throws the unframed bytes away
NeedMoreData_DropsBuffer ==
    /\ buffer' = <<>>
    /\ base' = base + Len(buffer)
    /\ pc' = "read"
    /\ UNCHANGED <<cur, yielded>>

\* NeedMoreData that never cuts the buffer down
NeedMoreData_KeepsAll ==
    /\ pc' = "read"
    /\ UNCHANGED <<buffer, base, cur, yielded>>

\* extract_http_message returned None: compact an oversized buffer, read on
NeedMoreData ==
    /\ IF Len(buffer) > chunk_size * 2
       THEN /\ buffer' = SliceFrom(buffer, 0 - chunk_size)
            /\ base' = base + PyIdx(Len(buffer), 0 - chunk_size)
       ELSE UNCHANGED <<buffer, base>>
    /\ pc' = "read"
    /\ UNCHANGED <<cur, yielded>>

\* extract_http_message returned (message, first_line, headers, remaining)
\* for the frame f ending at body_end: the tuple is yielded.  The ghost
\* record keeps the offsets in input of start, body_start, body_end and of
\* the first byte of remaining, and whether parse_chunked_end gave body_end.
Yield(f, body_end) ==
    /\ Len(yielded) < MaxYield
    /\ LET m == [message |-> Slice(buffer, f.start, body_end),
                 first_line |-> f.first_line, headers |-> f.headers]
       IN  /\ cur' = Some(m)
           /\ yielded' = Append(yielded,
                  [m |-> m, start |-> base + f.start, body |-> base + f.body_start,
                   end |-> base + body_end, walked |-> (pc = "chunk"),
                   rest |-> base + PyIdx(Len(buffer), body_end)])
    /\ buffer' = SliceFrom(buffer, body_end)
    /\ base' = base + PyIdx(Len(buffer), body_end)
    /\ pc' = "pair"

\* extracted = extract_http_message(buffer), up to the call of parse_chunked_end
Extract ==
    /\ pc = "extract"
    /\ LET f == Frame(buffer)
       IN  IF f.op = "none" THEN NeedMoreData /\ UNCHANGED idx
           ELSE IF f.op = "chunked"
                THEN /\ idx' = f.body_start
                     /\ pc' = "chunk"
                     /\ UNCHANGED <<buffer, base, cur, yielded>>
           ELSE Yield(f, f.body_end) /\ UNCHANGED idx
    /\ UNCHANGED <<input, parts, chunk_size, limit, pos,
                   pending_request, items, count_items>>

\* One pass of the loop of parse_chunked_end, and the rest of
\* extract_http_message when the function returns
ChunkPass ==
    /\ pc = "chunk"
    /\ LET r == ChunkStep(buffer, idx)
       IN  IF r.op = "loop"
           THEN /\ idx' = r.val
                /\ UNCHANGED <<buffer, base, cur, yielded, pc>>
           ELSE IF r.val = None THEN NeedMoreData /\ UNCHANGED idx
           ELSE Yield(Frame(buffer), r.val[1]) /\ UNCHANGED idx
    /\ UNCHANGED <<input, parts, chunk_size, limit, pos,
                   pending_request, items, count_items>>

Item(request, response) == [request |-> request, response |-> response]

\* PairEmits that lets a new request replace the pending one unwritten
PairEmits_KeepsPending(m, pending) ==
    IF IsRequest(m.first_line) THEN <<>>
    ELSE IF pending # None THEN <<Item(pending, Some(m))>>
         ELSE <<Item(None, Some(m))>>

\* PairEmits that writes every response alone
PairEmits_OrphanResponse(m, pending) ==
    IF IsRequest(m.first_line)
    THEN IF pending # None THEN <<Item(pending, None)>> ELSE <<>>
    ELSE <<Item(None, Some(m))>>

\* PairEmits that writes a response without the request pending for it
PairEmits_DropsBothSides(m, pending) ==
    IF IsRequest(m.first_line)
    THEN IF pending # None THEN <<Item(pending, None)>> ELSE <<>>
    ELSE IF pending # None THEN <<Item(None, None)>>
         ELSE <<Item(None, Some(m))>>

\* The calls of write_http_item in the body of the for loop, for the
\* message m and the pending request
PairEmits(m, pending) ==
    IF IsRequest(m.first_line)
    THEN IF pending # None THEN <<Item(pending, None)>> ELSE <<>>
    ELSE IF pending # None THEN <<Item(pending, Some(m))>>
         ELSE <<Item(None, Some(m))>>

\* The body of the for loop of write_http_messages_as_xml for cur
Pair ==
    /\ pc = "pair"
    /\ items' = items \o PairEmits(cur[1], pending_request)
    /\ count_items' = count_items + Len(PairEmits(cur[1], pending_request))
    /\ pending_request' = IF IsRequest(cur[1].first_line) THEN cur ELSE None
    /\ pc' = IF limit # None /\ count_items' >= limit[1] THEN "flush" ELSE "extract"
    /\ cur' = None
    /\ UNCHANGED <<input, parts, chunk_size, limit, pos, buffer, base, idx, yielded>>

\* Flush that writes the pending request whatever the limit
Flush_IgnoresLimit ==
    /\ pc = "flush"
    /\ IF pending_request # None
       THEN /\ items' = Append(items, Item(pending_request, None))
            /\ count_items' = count_items + 1
       ELSE UNCHANGED <<items, count_items>>
    /\ pc' = "done"
    /\ UNCHANGED <<input, parts, chunk_size, limit, pos, buffer, base, idx, cur,
                   yielded, pending_request>>

\* After the for loop: the pending request is written unless the limit is met
Flush ==
    /\ pc = "flush"
    /\ IF pending_request # None /\ (limit = None \/ count_items < limit[1])
       THEN /\ items' = Append(items, Item(pending_request, None))
            /\ count_items' = count_items + 1
       ELSE UNCHANGED <<items, count_items>>
    /\ pc' = "done"
    /\ UNCHANGED <<input, parts, chunk_size, limit, pos, buffer, base, idx, cur,
                   yielded, pending_request>>

Next == Read \/ Extract \/ ChunkPass \/ Pair \/ Flush

Spec == Init /\ [][Next]_vars

----------------------------------------------------------------------------
(* What the inputs are, for the properties *)

IsRequestMsg(d) == d.line = REQUEST_LINE
IsResponseMsg(d) == d.line = STATUS_LINE

\* Every chunk carries as many data bytes as its size token says, and the
\* body ends with its only zero-size chunk
WellFormedChunks(cs) ==
    /\ cs # <<>>
    /\ \A i \in 1..Len(cs) :
           /\ ParseInt(cs[i].size, 16) = Some(Len(cs[i].data))
           /\ (Len(cs[i].data) = 0) <=> (i = Len(cs))

\* The body is what the headers announce
WellFormed(d) ==
    /\ d.hs = <<>>
    /\ ~(d.te /\ d.cl # None)
    /\ d.cl # None => ParseInt(d.cl[1], 10) = Some(Len(d.body)) /\ d.chunks = <<>>
    /\ d.te => d.body = <<>> /\ WellFormedChunks(d.chunks)
    /\ (d.cl = None /\ ~d.te) => d.body = <<>> /\ d.chunks = <<>>

\* One kind of line break in the whole message
UniformEol(d) == \A i \in 1..Len(d.chunks) : d.chunks[i].e1 = d.eol /\ d.chunks[i].e2 = d.eol

ExpectedHeaders(d) ==
    (IF d.cl # None THEN CONTENT_LENGTH :> d.cl[1] ELSE EmptyHeaders)
    @@ (IF d.te THEN TRANSFER_ENCODING :> CHUNKED ELSE EmptyHeaders)

\* The tuple a message is to be yielded as
ExpectedMessage(d) ==
    [message |-> Text(d), first_line |-> d.line, headers |-> ExpectedHeaders(d)]

\* The tuples yielded so far
Messages == [i \in 1..Len(yielded) |-> yielded[i].m]

\* The tuples the for loop of write_http_messages_as_xml has taken in
Consumed == IF pc = "pair" THEN SubSeq(Messages, 1, Len(yielded) - 1) ELSE Messages

\* The items of a message stream: a response goes with the request right
\* before it, any other message stands alone
RECURSIVE PairUp(_)
PairUp(ms) ==
    IF ms = <<>> THEN <<>>
    ELSE IF ~IsRequest(ms[1].first_line)
         THEN <<Item(None, Some(ms[1]))>> \o PairUp(Tail(ms))
    ELSE IF Len(ms) >= 2 /\ ~IsRequest(ms[2].first_line)
         THEN <<Item(Some(ms[1]), Some(ms[2]))>> \o PairUp(Tail(Tail(ms)))
    ELSE <<Item(Some(ms[1]), None)>> \o PairUp(Tail(ms))

----------------------------------------------------------------------------
(* Properties *)

\* C1: every successful extract_http_message call leaves a remaining buffer
\* strictly shorter than the buffer it was given, whatever Content-Length
\* value int() accepts, so the inner loop of iter_http_messages ends.
C1_ExtractShrinksBuffer ==
    [][pc' = "pair" => Len(buffer') < Len(buffer)]_vars

\* C2: an input of one well-formed request followed by one well-formed
\* response, each with CRLF CRLF or LF LF after its headers, gives exactly
\* one item holding both, from byte ranges that do not overlap.
C2_RequestThenResponseIsOneItem ==
    (/\ pc = "done" /\ limit = None /\ chunk_size = Len(input)
     /\ Len(parts) = 2
     /\ IsRequestMsg(parts[1]) /\ WellFormed(parts[1]) /\ UniformEol(parts[1])
     /\ IsResponseMsg(parts[2]) /\ WellFormed(parts[2]) /\ UniformEol(parts[2]))
    => /\ Len(items) = 1
       /\ items[1].request # None /\ items[1].response # None
       /\ Len(yielded) = 2 /\ yielded[1].end <= yielded[2].start

\* C3: a request that arrives while a request is pending makes the pending
\* one an item without response and becomes the pending one itself, not yet
\* written; so two requests and no response end as two items without
\* response, in input order.
C3_RequestFlushesPending ==
    /\ [][(pc = "pair" /\ pending_request # None /\ IsRequest(cur[1].first_line))
          => /\ items' = Append(items, Item(pending_request, None))
             /\ pending_request' = cur]_vars
    /\ []((/\ pc = "done" /\ limit = None /\ Len(yielded) = 2
           /\ IsRequest(Messages[1].first_line) /\ IsRequest(Messages[2].first_line))
          => items = <<Item(Some(Messages[1]), None), Item(Some(Messages[2]), None)>>)

C3_Witness ==
    /\ pc = "done" /\ limit = None /\ Len(yielded) = 2 /\ Len(items) = 2
    /\ IsRequest(Messages[1].first_line) /\ IsRequest(Messages[2].first_line)
    /\ Messages[1].message # <<>>

\* C4: without a limit every message taken from the iterator is in exactly
\* one item, in stream order: a response with the request right before it,
\* or alone; the request still pending is the only message not yet in an
\* item, and it is written at the end of the stream.
C4_EveryMessageInOneItem ==
    limit = None =>
        /\ (pc # "done" /\ pending_request = None) => items = PairUp(Consumed)
        /\ (pc # "done" /\ pending_request # None) =>
               /\ Consumed # <<>> /\ pending_request = Some(Consumed[Len(Consumed)])
               /\ items = PairUp(SubSeq(Consumed, 1, Len(Consumed) - 1))
        /\ pc = "done" => items = PairUp(Messages)

C4_Witness ==
    /\ pc = "done" /\ limit = None /\ Len(yielded) = 2 /\ Len(items) = 1
    /\ items[1].request = Some(Messages[1]) /\ items[1].response = Some(Messages[2])

\* C5: one message read in two chunks, split inside its headers or inside
\* its chunked body, is yielded as the same single tuple as when it is read
\* in one chunk.
C5_SplitSameAsWhole ==
    (/\ pc = "done" /\ Len(parts) = 1
     /\ WellFormed(parts[1]) /\ UniformEol(parts[1])
     /\ Len(input) <= 2 * chunk_size)
    => Messages = <<ExpectedMessage(parts[1])>>

C5_Witness ==
    /\ pc = "done" /\ Len(parts) = 1 /\ WellFormed(parts[1]) /\ UniformEol(parts[1])
    /\ parts[1].te
    /\ chunk_size > Len(HeaderText(parts[1])) /\ chunk_size < Len(input)
    /\ Len(yielded) = 1

\* The int() value of a text, for texts int() accepts
IntOf(text) == ParseInt(text, 10)[1]

\* The Content-Length of a message says more bytes than follow its headers
OverDeclared(d) ==
    /\ d.cl # None /\ ParseInt(d.cl[1], 10) # None
    /\ IntOf(d.cl[1]) > Len(Text(d)) - Len(HeaderText(d))

\* The input ends with a message whose Content-Length says more bytes than
\* the input holds, after messages without a negative Content-Length
Truncated ==
    /\ OverDeclared(parts[Len(parts)])
    /\ \A i \in 1..(Len(parts) - 1) :
           parts[i].cl # None /\ ParseInt(parts[i].cl[1], 10) # None
               => IntOf(parts[i].cl[1]) >= 0

\* A number that every step of a run that ends makes smaller: the bytes
\* not yet read count twice, the bytes in the buffer once, then the place
\* in the loops, then the bytes parse_chunked_end has still to walk
Rank ==
    LET left == 2 * (Len(input) - pos) + Len(buffer)
        place == CASE pc = "pair" -> 5 [] pc = "extract" -> 4 [] pc = "chunk" -> 3
                   [] pc = "read" -> 2 [] pc = "flush" -> 1 [] OTHER -> 0
        walk == IF pc = "chunk" THEN Len(buffer) - idx ELSE 0
    IN  (left * 6 + place) * (Len(input) + 2) + walk

C7_ChunkedEndAfterLastChunk ==
    (/\ pc = "done" /\ Len(parts) = 1 /\ chunk_size = Len(input)
     /\ parts[1].te /\ parts[1].cl = None /\ parts[1].body = <<>>
     /\ WellFormedChunks(parts[1].chunks))
    => /\ Len(yielded) = 1
       /\ yielded[1].walked
       /\ yielded[1].end = Len(input)
       /\ yielded[1].m.message = SubSeq(input, yielded[1].start + 1, yielded[1].end)

\* C8: with a Content-Length that is a non-negative integer and a
\* Transfer-Encoding with chunked, Content-Length alone gives the end of
\* the body: parse_chunked_end is not called and the message has exactly
\* Content-Length bytes after the header terminator.
C8_ContentLengthWins ==
    /\ pc = "chunk" => ~UsesContentLength(Frame(buffer).headers)
    /\ \A i \in 1..Len(yielded) :
           LET y == yielded[i]
               h == y.m.headers
           IN  (/\ UsesContentLength(h) /\ UsesChunked(h)
                /\ ParseInt(h[CONTENT_LENGTH], 10) # None
                /\ IntOf(h[CONTENT_LENGTH]) >= 0)
               => /\ ~y.walked
                  /\ y.end - y.body = IntOf(h[CONTENT_LENGTH])
                  /\ Len(y.m.message) = (y.body - y.start) + IntOf(h[CONTENT_LENGTH])

C8_Witness ==
    \E i \in 1..Len(yielded) :
        /\ UsesContentLength(yielded[i].m.headers) /\ UsesChunked(yielded[i].m.headers)
        /\ yielded[i].m.headers[CONTENT_LENGTH] = <<"3">>
        /\ yielded[i].end - yielded[i].body = 3

\* C9: a Content-Length that is not a non-negative integer is not used as a
\* length: the body is framed by parse_chunked_end when Transfer-Encoding
\* has chunked, and is empty otherwise.
C9_BadContentLengthFallsThrough ==
    \A i \in 1..Len(yielded) :
        LET y == yielded[i]
            h == y.m.headers
        IN  (/\ UsesContentLength(h)
             /\ (ParseInt(h[CONTENT_LENGTH], 10) = None \/ IntOf(h[CONTENT_LENGTH]) < 0))
            => IF UsesChunked(h) THEN y.walked ELSE y.end = y.body

\* C10: the ranges [start, end) of the yielded messages, as offsets in the
\* input, have start <= end, follow one another without overlap, and the
\* remaining buffer begins at end, never before start.
C10_RangesMonotone ==
    \A i \in 1..Len(yielded) :
        /\ yielded[i].start <= yielded[i].end
        /\ yielded[i].rest = yielded[i].end
        /\ i > 1 => yielded[i - 1].end <= yielded[i].start

\* C11: with an item limit L >= 0 the pairer never emits more than L items,
\* whether the first message is a request or a response.
C11_LimitBoundsItems ==
    limit # None => Len(items) <= limit[1] /\ count_items <= limit[1]

\* The earliest start find_next_http_start locates in buf, as an offset in
\* input when buf begins at offset b; None when it locates none
Located(buf, b) ==
    IF find_next_http_start(buf) = None THEN None
    ELSE Some(b + find_next_http_start(buf)[1][1])

\* C12: when extract_http_message gives up on a located start, the bytes
\* from that start on stay in the buffer, and after the next read the
\* framing attempt is made at the same offset of the input.
C12_RetryAtSameStart ==
    /\ [][(pc \in {"extract", "chunk"} /\ pc' = "read" /\ Located(buffer, base) # None)
          => Located(buffer', base') = Located(buffer, base)]_vars
    /\ [][(pc = "read" /\ pc' = "extract" /\ Located(buffer, base) # None)
          => Located(buffer', base') = Located(buffer, base)]_vars

\* A chunk-size token that is a non-negative hexadecimal number: hex digits
\* only, at least one
HexSize(token) ==
    /\ token # <<>>
    /\ \A i \in 1..Len(token) : DigitValue(token[i], 16) >= 0

\* C13: a chunked message with a chunk-size token that is not a
\* non-negative hexadecimal number (empty, not hexadecimal, or signed) is
\* never yielded: the chunk walker reports need-more-data for it, also when
\* the input has ended.
C13_BadChunkSizeNeverEmitted ==
    (/\ Len(parts) = 1 /\ parts[1].te /\ parts[1].cl = None
     /\ \E i \in 1..Len(parts[1].chunks) : ~HexSize(parts[1].chunks[i].size))
    => yielded = <<>>

\* C14: at most one request is pending at any time, and every item written
\* has a request or a response.
C14_OnePendingNoEmptyItem ==
    /\ pending_request = None \/ (Len(pending_request) = 1 /\ IsRequest(pending_request[1].first_line))
    /\ \A i \in 1..Len(items) : items[i].request # None \/ items[i].response # None

C14_Witness ==
    /\ pending_request # None
    /\ \E i \in 1..Len(items) : items[i].request = None /\ items[i].response # None

\* The header lines with a colon that a message was written with, in order
WrittenHeaders(d) ==
    (IF d.cl # None
     THEN <<Header(SubSeq(CL_NAME, 1, Len(CL_NAME) - 2), <<SP>> \o d.cl[1])>> ELSE <<>>)
    \o (IF d.te THEN <<Header(SubSeq(TE_LINE, 1, 17), SubSeq(TE_LINE, 19, Len(TE_LINE)))>>
        ELSE <<>>)
    \o SelectSeq(d.hs, LAMBDA h : h.name # <<>>)

\* The key a header name is stored under
KeyOf(name) == Lower(Strip(name))

\* The first message of the input was framed with the header block it was
\* written with
FirstFramedAsWritten ==
    /\ yielded # <<>>
    /\ yielded[1].start = 0
    /\ yielded[1].body = Len(HeaderText(parts[1]))

\* C15: parse_headers stores every header line with a colon under its name
\* trimmed and lower-cased, with the trimmed value of the last line of that
\* name (letter case ignored), and stores nothing else.
C15_HeadersLowerCaseLastWins ==
    FirstFramedAsWritten =>
        LET w == WrittenHeaders(parts[1])
            h == yielded[1].m.headers
        IN  /\ DOMAIN h = {KeyOf(w[i].name) : i \in 1..Len(w)}
            /\ \A i \in 1..Len(w) :
                   (\A j \in (i + 1)..Len(w) : KeyOf(w[j].name) # KeyOf(w[i].name))
                       => h[KeyOf(w[i].name)] = Strip(w[i].value)

C15_Witness ==
    /\ FirstFramedAsWritten
    /\ parts[1].hs = <<HOST_MIXED, NO_COLON, HOST_UPPER>>
    /\ yielded[1].m.headers = (<<"h","o","s","t">> :> <<"E","X","A","M","P","L","E",".","C","O","M">>)

\* C16: the buffer is cut down to its last chunk_size bytes only when
\* find_next_http_start locates no start in it: while a located message
\* waits for more data its bytes stay, so a well-formed message longer than
\* twice chunk_size whose start is located is yielded whole.
C16_CompactionOnlyWithoutStart ==
    /\ [][(pc \in {"extract", "chunk"} /\ pc' = "read" /\ Located(buffer, base) # None)
          => (buffer' = buffer /\ base' = base)]_vars
    /\ []((/\ pc = "done" /\ Len(parts) = 1
           /\ WellFormed(parts[1]) /\ UniformEol(parts[1])
           /\ Len(input) > 2 * chunk_size
           /\ Located(SubSeq(input, 1, 2 * chunk_size), 0) = Some(0))
          => Messages = <<ExpectedMessage(parts[1])>>)

\* The first n elements of s, all of s when it has fewer
Take(s, n) == SubSeq(s, 1, Min(n, Len(s)))

\* The items the for loop has written once it has taken in ms: a request at
\* the end of ms is pending, not written
Written(ms) ==
    IF ms # <<>> /\ IsRequest(ms[Len(ms)].first_line)
    THEN PairUp(SubSeq(ms, 1, Len(ms) - 1))
    ELSE PairUp(ms)

\* Every message of the input is well-formed, with the same line break in
\* all of them, and the input is read in one or two chunks
PlainInput ==
    /\ \A i \in 1..Len(parts) :
           WellFormed(parts[i]) /\ UniformEol(parts[i]) /\ parts[i].eol = parts[1].eol
    /\ Len(input) <= 2 * chunk_size

\* The items of the run without limit on a PlainInput
UncappedItems == PairUp([i \in 1..Len(parts) |-> ExpectedMessage(parts[i])])

\* C17: with a limit L >= 1 the items written are the first min(L, N) of
\* the N items the run without limit writes on the same input: until the
\* loop is left they are what the run without limit has written from the
\* same messages; a request pending when the limit is met is not written,
\* and it is written at the end of the stream when the limit is not met.
C17_CappedIsPrefixOfUncapped ==
    /\ (limit = None /\ pc = "done" /\ PlainInput) => items = UncappedItems
    /\ (limit # None /\ limit[1] >= 1) =>
           /\ pc # "done" => items = Written(Consumed) /\ Len(items) <= limit[1]
           /\ pc = "done" =>
                  IF Len(Written(Messages)) >= limit[1]
                  THEN items = Take(Written(Messages), limit[1])
                  ELSE items = PairUp(Messages)
           /\ (pc = "done" /\ PlainInput) => items = Take(UncappedItems, limit[1])

C17_Witness ==
    /\ pc = "done" /\ limit = Some(1) /\ PlainInput
    /\ pending_request # None /\ Len(items) = 1 /\ Len(UncappedItems) = 2
    /\ Len(parts) = 3

\* C18: a pass of the loop of parse_chunked_end that does not return
\* leaves idx strictly greater than it found it, whatever size int() gave,
\* so the walk over a finite buffer ends.
C18_ChunkPassAdvances ==
    pc = "chunk" =>
        (ChunkStep(buffer, idx).op = "loop" => ChunkStep(buffer, idx).val > idx)

\* The first message of the input cannot be framed however much of the
\* input is in the buffer: its Content-Length says more bytes than the
\* input has after its headers, or its chunked body breaks off in a chunk
Unframeable(d) ==
    \/ /\ d.cl # None /\ ParseInt(d.cl[1], 10) # None
       /\ IntOf(d.cl[1]) > Len(input) - Len(HeaderText(d))
    \/ /\ d.cl = None /\ d.te /\ d.chunks = ChunksCut

\* C19: extract_http_message attempts the earliest located start only:
\* every message yielded begins at the earliest start located in the
\* buffer, and when the first message cannot be framed and the buffer
\* stays within twice chunk_size, none of the well-formed messages after
\* it is yielded and no item is written.
C19_OnlyEarliestStartAttempted ==
    /\ [][pc' = "pair" =>
              Some(yielded'[Len(yielded')].start) = Located(buffer, base)]_vars
    /\ []((/\ Len(parts) >= 2 /\ Unframeable(parts[1])
           /\ \A i \in 2..Len(parts) : WellFormed(parts[i])
           /\ Len(input) <= 2 * chunk_size)
          => yielded = <<>> /\ items = <<>>)

C19_Witness ==
    /\ pc = "done" /\ Len(parts) = 2 /\ Unframeable(parts[1]) /\ WellFormed(parts[2])
    /\ chunk_size < Len(input) /\ Len(input) <= 2 * chunk_size
    /\ base = 0 /\ buffer = input /\ yielded = <<>>
    /\ Located(SliceFrom(buffer, Len(Text(parts[1])) - 1), 0) # None

\* C20: when iter_http_messages is about to read, its buffer holds at most
\* 2 * chunk_size bytes, so the buffer never holds more than 3 * chunk_size.
C20_BufferBounded ==
    /\ pc = "read" => Len(buffer) <= 2 * chunk_size
    /\ Len(buffer) <= 3 * chunk_size

C20_Witness ==
    /\ pc = "read" /\ Len(buffer) = chunk_size /\ base = 2 * chunk_size
    /\ pos = 3 * chunk_size /\ pos < Len(input)

====
